---- MODULE Spec2Model ----
(***************************************************************************)
(* A model of stimulus.py: the Paradigm object (its stimulus list, its     *)
(* next-index, its dataset and destination file), the stimulus classes it  *)
(* instantiates and shows, and the toolkit's key buffer it polls.          *)
(*                                                                         *)
(* Encoding of Python values:                                              *)
(*   - a stimulus specification is [tag, elems]: tag is its Python type    *)
(*     ("tuple", "list", "str"), elems its elements;                       *)
(*   - an element is [tag, cls, items]: a class object, a tuple of         *)
(*     positional arguments, or a dict of keyword arguments;               *)
(*   - an argument value is a sequence of strings (a scalar 'x' is <<"x">>,*)
(*     a key list ['c'] is <<"c">>; a dict item is <<key, value>>);        *)
(*   - a string whose letter case matters (format) is a sequence of        *)
(*     one-letter strings.                                                 *)
(***************************************************************************)
EXTENDS Integers, Sequences, FiniteSets, TLC

VARIABLES
    pc,          \* position of the program: "new", "noobject", "idle", "loop",
                 \* "show", "waitkeys", "save", "exited"
    format_arg,  \* the format argument given to Paradigm.__init__
    format,      \* self.format
    escape_key,  \* self.escape_key
    dataset,     \* self.dataset: [attached, rows]
    stimuli,     \* self.stimuli
    stim_idx,    \* self.stim_idx
    file,        \* the file at self.destination: [exists, fmt, rows]
    keybuf,      \* the toolkit's buffer of pending key presses
    call,        \* the running (or last) API call: [op, save_dataset, quit, rows],
                 \* rows being the number of rows of the dataset when it began
    it,          \* play_all: the list iterator's next position (1-based)
    broke,       \* play_all: the loop was left by `break`
    index,       \* play_stimulus: the local `index`
    made,        \* the result of the last initialize_stimulus: [data, exc, inst]
    raised,      \* the exception the last API call raised, or "none"
    log,         \* what the running (or last) API call has done: constructions,
                 \* returned shows, writes, quits
    seq_next,    \* the number of shows so far while only play_next has shown a
                 \* stimulus, -1 once another call has
    ncalls       \* the number of play_* calls made so far

vars == <<pc, format_arg, format, escape_key, dataset, stimuli, stim_idx, file,
          keybuf, call, it, broke, index, made, raised, log, seq_next, ncalls>>

----------------------------------------------------------------------------
(* Bounds of the model *)

MaxStimuli == 2
MaxCalls == 2

----------------------------------------------------------------------------
(* Python values *)

Cls(c) == [tag |-> "class", cls |-> c, items |-> <<>>]
Tup(xs) == [tag |-> "tuple", cls |-> "", items |-> xs]
Dict(xs) == [tag |-> "dict", cls |-> "", items |-> xs]

TupleOf(es) == [tag |-> "tuple", elems |-> es]
StrValue == [tag |-> "str", elems |-> <<>>]

None == "None"
Window == "window"

NoInst == [cls |-> "", window |-> "", args |-> <<>>, kwargs |-> <<>>]

\* (Text, ('hi',))
S_text == TupleOf(<<Cls("Text"), Tup(<< <<"hi">> >>)>>)
\* (DataStim, {'v': 'a'})
S_kw == TupleOf(<<Cls("DataStim"), Dict(<< <<"v", "a">> >>)>>)
\* (DataStim, ('b',), {'k': 'v'})
S_both == TupleOf(<<Cls("DataStim"), Tup(<< <<"b">> >>), Dict(<< <<"k", "v">> >>)>>)
\* (WaitForKey, (['c'], 'continue'))
S_wait == TupleOf(<<Cls("WaitForKey"), Tup(<< <<"c">>, <<"continue">> >>)>>)
\* (WaitForKey, (['c'], 'exit'))
S_exit == TupleOf(<<Cls("WaitForKey"), Tup(<< <<"c">>, <<"exit">> >>)>>)
\* (Stimulus, ())
S_base == TupleOf(<<Cls("Stimulus"), Tup(<<>>)>>)
\* ()
S_empty == TupleOf(<<>>)
\* 'Text'
S_str == StrValue

SpecInputs == {S_kw, S_both, S_wait, S_exit, S_base, S_empty, S_str}

Keys == {"escape", "c"}

----------------------------------------------------------------------------
(* Paradigm.__init__ *)

csv == <<"c", "s", "v">>
json == <<"j", "s", "o", "n">>
yaml == <<"y", "a", "m", "l">>
xlsx == <<"x", "l", "s", "x">>

\* str.lower() on one letter
LowerChar(ch) ==
    CASE ch = "C" -> "c" [] ch = "S" -> "s" [] ch = "V" -> "v"
      [] ch = "J" -> "j" [] ch = "O" -> "o" [] ch = "N" -> "n"
      [] ch = "Y" -> "y" [] ch = "A" -> "a" [] ch = "M" -> "m"
      [] ch = "L" -> "l" [] ch = "X" -> "x" [] ch = "T" -> "t"
      [] OTHER -> ch

Lower(s) == [i \in 1..Len(s) |-> LowerChar(s[i])]

SupportedFormats == {csv, json, yaml, xlsx}

NoCall == [op |-> "none", save_dataset |-> FALSE, quit |-> FALSE, rows |-> 0]
NoMade == [data |-> S_str, exc |-> "none", inst |-> NoInst]

Init ==
    /\ pc = "new"
    /\ format_arg = <<>>
    /\ format = <<>>
    /\ escape_key = None
    /\ dataset = [attached |-> FALSE, rows |-> <<>>]
    /\ stimuli = <<>>
    /\ stim_idx = 0
    /\ file = [exists |-> FALSE, fmt |-> <<>>, rows |-> <<>>]
    /\ keybuf = {}
    /\ call = NoCall
    /\ it = 1
    /\ broke = FALSE
    /\ index = 0
    /\ made = NoMade
    /\ raised = "none"
    /\ log = <<>>
    /\ seq_next = 0
    /\ ncalls = 0

NewParadigm(fmt, esc, ds) ==
    /\ pc = "new"
    /\ format_arg' = fmt
    /\ escape_key' = esc
    /\ dataset' = [attached |-> ds, rows |-> <<>>]
    /\ IF Lower(fmt) \in SupportedFormats
       THEN /\ format' = Lower(fmt)
            /\ raised' = "none"
            /\ pc' = "idle"
       ELSE /\ format' = format
            /\ raised' = "ValueError"
            /\ pc' = "noobject"
    /\ UNCHANGED <<stimuli, stim_idx, file, keybuf, call, it, broke, index, made,
                   log, seq_next, ncalls>>

----------------------------------------------------------------------------
(* Paradigm.add_stimulus, Paradigm.add_stimuli *)

\* the assertion of add_stimulus: type(stimulus) in (tuple, list)
AcceptedType(stimulus) == stimulus.tag \in {"tuple", "list"}

add_stimulus(stimulus) ==
    /\ pc = "idle"
    /\ Len(stimuli) < MaxStimuli
    /\ IF AcceptedType(stimulus)
       THEN /\ stimuli' = Append(stimuli, stimulus)
            /\ raised' = "none"
       ELSE /\ stimuli' = stimuli
            /\ raised' = "AssertionError"
    /\ call' = [op |-> "add", save_dataset |-> FALSE, quit |-> FALSE,
                rows |-> Len(dataset.rows)]
    /\ log' = <<>>
    /\ UNCHANGED <<pc, format_arg, format, escape_key, dataset, stim_idx, file,
                   keybuf, it, broke, index, made, seq_next, ncalls>>

\* the elements add_stimuli appends before the first one add_stimulus refuses
RECURSIVE AddedPrefix(_)
AddedPrefix(l) ==
    IF l = <<>> \/ ~AcceptedType(Head(l))
    THEN <<>>
    ELSE <<Head(l)>> \o AddedPrefix(Tail(l))

add_stimuli(l) ==
    /\ pc = "idle"
    /\ Len(stimuli) + Len(l) <= MaxStimuli
    /\ stimuli' = stimuli \o AddedPrefix(l)
    /\ raised' = IF Len(AddedPrefix(l)) = Len(l) THEN "none" ELSE "AssertionError"
    /\ call' = [op |-> "add", save_dataset |-> FALSE, quit |-> FALSE,
                rows |-> Len(dataset.rows)]
    /\ log' = <<>>
    /\ UNCHANGED <<pc, format_arg, format, escape_key, dataset, stim_idx, file,
                   keybuf, it, broke, index, made, seq_next, ncalls>>

----------------------------------------------------------------------------
(* The stimulus classes *)

\* whether cls(window, *args, **kwargs) binds its parameters
CtorAccepts(cls, args, kwargs) ==
    CASE cls = "Stimulus" -> args = <<>> /\ kwargs = <<>>
      [] cls = "WaitForKey" -> Len(args) + Len(kwargs) \in {1, 2}
      [] OTHER -> Len(args) + Len(kwargs) >= 1

\* has_method(obj, 'get_data'): only DataStim, a Stimulus subclass of the
\* experiment, defines get_data
has_method(inst) == inst.cls = "DataStim"

\* stim.get_data(): the row the stimulus reports
get_data(inst) == <<inst.args, inst.kwargs>>

\* WaitForKey: self.keys and self.event
KeysOf(inst) == IF Len(inst.args) >= 1 THEN inst.args[1] ELSE <<>>
EventOf(inst) == IF Len(inst.args) >= 2 THEN inst.args[2][1] ELSE "continue"

----------------------------------------------------------------------------
(* Paradigm.initialize_stimulus *)

Failed(stim_data, exc) == [data |-> stim_data, exc |-> exc, inst |-> NoInst]

initialize_stimulus(stim_data) ==
    LET d == stim_data.elems IN
    IF Len(d) < 2
    THEN Failed(stim_data, "IndexError")
    ELSE LET stim_class == d[1]
             stim_args == IF d[2].tag = "tuple" THEN d[2].items ELSE <<>>
             stim_kwargs == IF stim_args # <<>>
                            THEN (IF Len(d) >= 3 THEN d[3] ELSE Dict(<<>>))
                            ELSE d[2]
         IN  IF stim_kwargs.tag # "dict" \/ stim_class.tag # "class"
             THEN Failed(stim_data, "TypeError")
             ELSE IF ~CtorAccepts(stim_class.cls, stim_args, stim_kwargs.items)
             THEN Failed(stim_data, "TypeError")
             ELSE [data |-> stim_data, exc |-> "none",
                   inst |-> [cls |-> stim_class.cls, window |-> Window,
                             args |-> stim_args, kwargs |-> stim_kwargs.items]]

----------------------------------------------------------------------------
(* Python list indexing *)

\* whether l[i] exists, for a list of n elements and a Python index i
PyIndexOK(i, n) == -n <= i /\ i < n

\* the 1-based position of l[i]
PyPos(i, n) == IF i >= 0 THEN i + 1 ELSE n + i + 1

\* whether l.index(x) finds x
Contains(l, x) == \E i \in 1..Len(l) : l[i] = x

\* l.index(x): the 0-based index of the first element equal to x
ListIndex(l, x) == (CHOOSE i \in 1..Len(l) :
                       l[i] = x /\ \A j \in 1..(i - 1) : l[j] # x) - 1

----------------------------------------------------------------------------
(* What has happened *)

\* an event: what happened (ev), in which call (op), to the instance (inst) made
\* from which specification (data)
Ev(e, op, data, inst) == [ev |-> e, op |-> op, data |-> data, inst |-> inst]

----------------------------------------------------------------------------
(* The part of play_next and play_stimulus up to stim.show() *)

\* stim = self.initialize_stimulus(stim_data), then on to stim.show(); done is
\* what the call has done before
Construct(op, done, stim_data) ==
    LET m == initialize_stimulus(stim_data) IN
    /\ made' = m
    /\ IF m.exc = "none"
       THEN /\ log' = Append(done, Ev("construct", op, m.data, m.inst))
            /\ raised' = "none"
            /\ pc' = "show"
       ELSE /\ log' = done
            /\ raised' = m.exc
            /\ pc' = "idle"

\* the call raises exc before anything is constructed
Raise(done, exc) ==
    /\ raised' = exc
    /\ pc' = "idle"
    /\ log' = done
    /\ UNCHANGED <<made>>

----------------------------------------------------------------------------
(* Paradigm.play_next *)

play_next ==
    /\ pc = "idle"
    /\ ncalls < MaxCalls
    /\ ncalls' = ncalls + 1
    /\ call' = [op |-> "next", save_dataset |-> FALSE, quit |-> FALSE,
                rows |-> Len(dataset.rows)]
    /\ IF Len(stimuli) > 0
       THEN IF PyIndexOK(stim_idx, Len(stimuli))
            THEN Construct("next", <<>>, stimuli[PyPos(stim_idx, Len(stimuli))])
            ELSE Raise(<<>>, "IndexError")
       ELSE Raise(<<>>, "IndexError")
    /\ UNCHANGED <<format_arg, format, escape_key, dataset, stimuli, stim_idx, file,
                   keybuf, it, broke, index, seq_next>>

----------------------------------------------------------------------------
(* Paradigm.play_stimulus *)

IntArg(n) == [kind |-> "int", n |-> n, spec |-> S_str]
SpecArg(s) == [kind |-> "spec", n |-> 0, spec |-> s]

\* lines 129-136: the index and the specification play_stimulus(stim) plays
Resolve(l, stim) ==
    IF stim.kind = "int"
    THEN IF PyIndexOK(stim.n, Len(l))
         THEN [exc |-> "none", index |-> stim.n,
               stim_data |-> l[PyPos(stim.n, Len(l))]]
         ELSE [exc |-> "IndexError", index |-> 0, stim_data |-> S_str]
    ELSE IF stim.spec.tag \in {"list", "tuple"}
    THEN IF Contains(l, stim.spec)
         THEN [exc |-> "none", index |-> ListIndex(l, stim.spec),
               stim_data |-> stim.spec]
         ELSE [exc |-> "ValueError", index |-> 0, stim_data |-> S_str]
    ELSE [exc |-> "ValueError", index |-> 0, stim_data |-> S_str]

\* lines 129-138 of play_stimulus(stim), called by op
PlayStimulusBegin(op, done, stim) ==
    LET r == Resolve(stimuli, stim) IN
    IF r.exc = "none"
    THEN /\ index' = r.index
         /\ Construct(op, done, r.stim_data)
    ELSE /\ index' = index
         /\ Raise(done, r.exc)

play_stimulus(stim) ==
    /\ pc = "idle"
    /\ ncalls < MaxCalls
    /\ ncalls' = ncalls + 1
    /\ call' = [op |-> "stim", save_dataset |-> FALSE, quit |-> FALSE,
                rows |-> Len(dataset.rows)]
    /\ PlayStimulusBegin("stim", <<>>, stim)
    /\ UNCHANGED <<format_arg, format, escape_key, dataset, stimuli, stim_idx, file,
                   keybuf, it, broke, seq_next>>

----------------------------------------------------------------------------
(* Paradigm.play_all *)

play_all(save_dataset, quit) ==
    /\ pc = "idle"
    /\ ncalls < MaxCalls
    /\ ncalls' = ncalls + 1
    /\ call' = [op |-> "all", save_dataset |-> save_dataset, quit |-> quit,
                rows |-> Len(dataset.rows)]
    /\ it' = 1
    /\ broke' = FALSE
    /\ raised' = "none"
    /\ log' = <<>>
    /\ pc' = "loop"
    /\ UNCHANGED <<format_arg, format, escape_key, dataset, stimuli, stim_idx, file,
                   keybuf, index, made, seq_next>>

\* faulty variant: the polled keys are not looked at
EscapeNeverPolled(polled) == FALSE

\* line 93: self.escape_key in event.getKeys()
EscapePolled(polled) == escape_key \in polled

\* faulty variant: the iterator walks the list from its end
IterItemReversed(l, i) == l[Len(l) + 1 - i]

\* __iter__: the i-th element `for stim in self` yields
IterItem(l, i) == l[i]

\* one turn of `for stim in self`: the iterator yields the next element or ends
\* the loop; event.getKeys() takes the pending keys; break, or play_stimulus(stim)
LoopStep ==
    /\ pc = "loop"
    /\ IF it > Len(stimuli)
       THEN /\ pc' = "save"
            /\ UNCHANGED <<it, broke, keybuf, index, made, raised, log>>
       ELSE /\ it' = it + 1
            /\ keybuf' = {}
            /\ IF EscapePolled(keybuf)
               THEN /\ broke' = TRUE
                    /\ pc' = "save"
                    /\ UNCHANGED <<index, made, raised, log>>
               ELSE /\ broke' = broke
                    /\ PlayStimulusBegin("all", log, SpecArg(IterItem(stimuli, it)))
    /\ UNCHANGED <<format_arg, format, escape_key, dataset, stimuli, stim_idx, file,
                   call, seq_next, ncalls>>

----------------------------------------------------------------------------
(* Paradigm.append_stim_data *)

\* faulty variant: the AttributeError of a missing dataset is not caught
append_stim_data_uncaught(ds, stim) ==
    IF has_method(stim)
    THEN IF ds.attached
         THEN [ds |-> [ds EXCEPT !.rows = Append(@, get_data(stim))], exc |-> "none"]
         ELSE [ds |-> ds, exc |-> "AttributeError"]
    ELSE [ds |-> ds, exc |-> "none"]

\* the dataset afterwards and the exception that leaves the method: with no
\* dataset, self.dataset.append raises AttributeError, which is caught
append_stim_data(ds, stim) ==
    IF has_method(stim)
    THEN IF ds.attached
         THEN [ds |-> [ds EXCEPT !.rows = Append(@, get_data(stim))], exc |-> "none"]
         ELSE [ds |-> ds, exc |-> "none"]
    ELSE [ds |-> ds, exc |-> "none"]

----------------------------------------------------------------------------
(* stim.show() and the rest of play_next and play_stimulus *)

\* faulty variant: play_next sets stim_idx from play_stimulus's index
NextIdxFromIndex(op, idx, local_index) == local_index + 1

\* the index play_next and play_stimulus leave in self.stim_idx
NextIdx(op, idx, local_index) == IF op = "next" THEN idx + 1 ELSE local_index + 1

\* stim.show() has returned: lines 114-116 and 140-142
Finish ==
    LET r == append_stim_data(dataset, made.inst) IN
    /\ log' = Append(log, Ev("show", call.op, made.data, made.inst))
    /\ dataset' = r.ds
    /\ raised' = r.exc
    /\ seq_next' = IF call.op = "next" /\ seq_next >= 0 THEN seq_next + 1 ELSE -1
    /\ IF r.exc = "none"
       THEN /\ stim_idx' = NextIdx(call.op, stim_idx, index)
            /\ pc' = IF call.op = "all" THEN "loop" ELSE "idle"
       ELSE /\ stim_idx' = stim_idx
            /\ pc' = "idle"

\* any(keys)
AnyKeys(keys) == \E i \in 1..Len(keys) : keys[i] # ""

\* whether key k ends event.waitKeys for these keys
EndsWait(keys, k) == IF AnyKeys(keys) THEN \E i \in 1..Len(keys) : keys[i] = k ELSE TRUE

\* stim.show(); WaitForKey.show calls wait_for_key(self.keys), which clears the
\* pending events and waits
Show ==
    /\ pc = "show"
    /\ IF made.inst.cls = "WaitForKey"
       THEN /\ keybuf' = {}
            /\ IF KeysOf(made.inst) # <<>>
               THEN /\ pc' = "waitkeys"
                    /\ UNCHANGED <<raised>>
               ELSE /\ pc' = "idle"
                    /\ raised' = "UnboundLocalError"
            /\ UNCHANGED <<dataset, stim_idx, log, seq_next>>
       ELSE /\ keybuf' = keybuf
            /\ Finish
    /\ UNCHANGED <<format_arg, format, escape_key, stimuli, file, call, it, broke,
                   index, made, ncalls>>

\* event.waitKeys returns key k; the other pending keys stay or are dropped,
\* depending on the toolkit's version. Then WaitForKey.run_event.
WaitKeys(k, rest) ==
    /\ pc = "waitkeys"
    /\ k \in keybuf
    /\ EndsWait(KeysOf(made.inst), k)
    /\ rest \subseteq keybuf \ {k}
    /\ keybuf' = rest
    /\ IF EventOf(made.inst) = "exit"
       THEN /\ pc' = "exited"
            /\ log' = Append(log, Ev("quit", call.op, S_str, NoInst))
            /\ UNCHANGED <<dataset, stim_idx, raised, seq_next>>
       ELSE Finish
    /\ UNCHANGED <<format_arg, format, escape_key, stimuli, file, call, it, broke,
                   index, made, ncalls>>

----------------------------------------------------------------------------
(* Paradigm.write_data and the end of play_all *)

\* faulty variant: write_data has no xlsx branch
SerializationNoXlsx(fmt) ==
    IF fmt = csv THEN csv
    ELSE IF fmt = json THEN json
    ELSE yaml

\* the serialization write_data writes for self.format
Serialization(fmt) ==
    IF fmt = csv THEN csv
    ELSE IF fmt = json THEN json
    ELSE IF fmt = xlsx THEN xlsx
    ELSE yaml

\* `self.dataset` as a condition: a Dataset is true when it has rows
Truthy(ds) == ds.attached /\ ds.rows # <<>>

\* line 97
Saves(save_dataset, ds) == save_dataset /\ Truthy(ds)

\* lines 97-102
Save ==
    /\ pc = "save"
    /\ LET saves == Saves(call.save_dataset, dataset) IN
       /\ file' = IF saves
                  THEN [exists |-> TRUE, fmt |-> Serialization(format),
                        rows |-> dataset.rows]
                  ELSE file
       /\ log' = log \o (IF saves THEN <<Ev("write", "all", S_str, NoInst)>> ELSE <<>>)
                     \o (IF call.quit THEN <<Ev("quit", "all", S_str, NoInst)>> ELSE <<>>)
    /\ pc' = IF call.quit THEN "exited" ELSE "idle"
    /\ UNCHANGED <<format_arg, format, escape_key, dataset, stimuli, stim_idx,
                   keybuf, call, it, broke, index, made, raised, seq_next, ncalls>>

----------------------------------------------------------------------------
(* The participant presses a key. The buffer is read at two places only: the
   poll of play_all's loop and the wait of wait_for_key. A key pressed at any
   other moment is found (or cleared) there like one pressed right before, so
   presses are modelled at these two places. *)

PressKey(k) ==
    /\ pc \in {"loop", "waitkeys"}
    /\ k \notin keybuf
    /\ keybuf' = keybuf \cup {k}
    /\ UNCHANGED <<pc, format_arg, format, escape_key, dataset, stimuli, stim_idx,
                   file, call, it, broke, index, made, raised, log, seq_next, ncalls>>

----------------------------------------------------------------------------
(* Specifications *)

\* Spec: one paradigm, with or without a dataset, and every call of its API.
\* Its escape key is 'escape': a paradigm with escape_key=None behaves as this
\* one does while that key is not pressed. SpecFormat (below the properties)
\* constructs paradigms of every format, with escape_key=None.

CSV == <<"C", "S", "V">>

FormatInputs == {csv, CSV, <<"J", "s", "o", "n">>, <<"Y", "A", "M", "L">>,
                 <<"X", "l", "S", "x">>, <<"x", "l", "s">>, <<"T", "X", "T">>}

IntInputs == (0 - MaxStimuli)..MaxStimuli

Next ==
    \/ \E ds \in BOOLEAN : NewParadigm(CSV, "escape", ds)
    \/ \E s \in SpecInputs : add_stimulus(s)
    \/ \E a, b \in SpecInputs : add_stimuli(<<a, b>>)
    \/ play_next
    \/ \E n \in IntInputs : play_stimulus(IntArg(n))
    \/ \E s \in SpecInputs : play_stimulus(SpecArg(s))
    \/ \E save_dataset, quit \in BOOLEAN : play_all(save_dataset, quit)
    \/ LoopStep
    \/ Show
    \/ \E k \in Keys, rest \in SUBSET Keys : WaitKeys(k, rest)
    \/ Save
    \/ \E k \in Keys : PressKey(k)

Spec == Init /\ [][Next]_vars

----------------------------------------------------------------------------
(* Properties *)

IsShow(e) == e.ev = "show"
IsPlay(e) == e.ev \in {"construct", "show"}
IsWrite(e) == e.ev = "write"

\* the events of the running (or last) call
Segment == log

Shows(l) == SelectSeq(l, IsShow)

\* the run of play_all has ended without an exception
RunEnded == call.op = "all" /\ (pc = "exited" \/ (pc = "idle" /\ raised = "none"))

\* C1: while play_all runs with the escape key not observed and no stimulus
\* failing, what it has done so far is: construct s1, show s1, construct s2,
\* show s2, ... up to the iterator's position, each show being of the instance
\* just constructed from the specification at that list position; and when the
\* loop ends this way every listed stimulus has been shown.
C1_PlayAllShowsEachInListOrder ==
    (call.op = "all" /\ pc \in {"loop", "save"} /\ ~broke) =>
        LET seg == Segment
            k == it - 1
        IN  /\ k <= Len(stimuli)
            /\ Len(seg) = 2 * k
            /\ \A i \in 1..k :
                  /\ seg[2 * i - 1].ev = "construct"
                  /\ seg[2 * i - 1].data = stimuli[i]
                  /\ seg[2 * i].ev = "show"
                  /\ seg[2 * i].data = stimuli[i]
                  /\ seg[2 * i].inst = seg[2 * i - 1].inst
            /\ (pc = "save" => k = Len(stimuli))

\* C1 witness: play_all has shown a list of two equal specifications to its end
C1_Witness ==
    /\ call.op = "all" /\ pc = "save" /\ ~broke
    /\ Len(stimuli) = 2 /\ stimuli[1] = stimuli[2]
    /\ Len(Shows(Segment)) = 2

\* C2: when a run of play_all with save_dataset=True has ended (the list
\* exhausted, the escape key observed, or a WaitForKey 'exit' played) and the
\* dataset holds a row, the run wrote the dataset exactly once, after its last
\* show and before the quit.
C2_DatasetWrittenOnceWhicheverWayTheRunEnds ==
    (RunEnded /\ call.save_dataset /\ Truthy(dataset)) =>
        LET seg == Segment IN
        /\ Len(SelectSeq(seg, IsWrite)) = 1
        /\ \A i, j \in 1..Len(seg) :
              (seg[i].ev = "write" /\ seg[j].ev = "show") => j < i
        /\ \A i, j \in 1..Len(seg) :
              (seg[i].ev = "write" /\ seg[j].ev = "quit") => i < j
        /\ file.exists /\ file.rows = dataset.rows

\* the rows that the shown stimuli with a get_data method report, in show order
RECURSIVE ReportedRows(_)
ReportedRows(shows) ==
    IF shows = <<>>
    THEN <<>>
    ELSE (IF has_method(Head(shows).inst) THEN <<get_data(Head(shows).inst)>> ELSE <<>>)
         \o ReportedRows(Tail(shows))

\* the rows the running (or last) call appended are those its shows report
C3_RowsOfThisCall ==
    /\ dataset.attached =>
          /\ call.rows <= Len(dataset.rows)
          /\ SubSeq(dataset.rows, call.rows + 1, Len(dataset.rows))
                = ReportedRows(Shows(log))
    /\ ~dataset.attached => dataset.rows = <<>>
    /\ raised # "AttributeError"

\* rows are only ever appended: the rows there stay, in their order
C3_RowsStay ==
    /\ Len(dataset'.rows) >= Len(dataset.rows)
    /\ SubSeq(dataset'.rows, 1, Len(dataset.rows)) = dataset.rows

\* C3: the rows of an attached dataset are exactly the get_data() results of the
\* shown stimuli that have a get_data method, one per show, in show order: every
\* call appends just the rows its shows report, in their order, behind the
\* rows of the calls before, which stay; a show of a stimulus without the method
\* appends nothing; without a dataset no row exists and no AttributeError
\* leaves a call.
C3_RowsAreTheShownStimuliData == []C3_RowsOfThisCall /\ [][C3_RowsStay]_vars

\* C3 witness: after a call that appended a row, a second call has made two
\* shows, of which one reported a row
C3_Witness ==
    /\ dataset.attached
    /\ call.rows = 1 /\ Len(dataset.rows) = 2
    /\ Len(Shows(log)) = 2
    /\ ncalls = 2

\* the form (StimulusType, (arguments)) of add_stimulus's documentation
WellFormed(s) ==
    /\ s.tag = "tuple"
    /\ Len(s.elems) \in {2, 3}
    /\ s.elems[1].tag = "class"
    /\ s.elems[2].tag \in {"tuple", "dict"}

\* C5: no malformed specification is ever stored in the stimulus list.
C5_NoMalformedSpecificationStored ==
    \A i \in 1..Len(stimuli) : WellFormed(stimuli[i])

\* the forms C6 names: (Class, args_tuple), (Class, kwargs_dict),
\* (Class, args_tuple, kwargs_dict)
NamedForm(s) ==
    /\ Len(s.elems) \in {2, 3}
    /\ s.elems[1].tag = "class"
    /\ \/ Len(s.elems) = 2 /\ s.elems[2].tag \in {"tuple", "dict"}
       \/ Len(s.elems) = 3 /\ s.elems[2].tag = "tuple" /\ s.elems[3].tag = "dict"

\* C6: initialize_stimulus on a specification of a named form returns an
\* instance of the class, made with the window, the tuple's elements as
\* positional arguments and the dict as keyword arguments.
C6_InitializeStimulusBuildsTheInstance ==
    (made # NoMade /\ NamedForm(made.data)) =>
        LET d == made.data.elems IN
        /\ made.exc = "none"
        /\ made.inst.cls = d[1].cls
        /\ made.inst.window = Window
        /\ made.inst.args = (IF d[2].tag = "tuple" THEN d[2].items ELSE <<>>)
        /\ made.inst.kwargs = (IF d[2].tag = "dict" THEN d[2].items
                               ELSE IF Len(d) = 3 THEN d[3].items ELSE <<>>)

\* C10: after play_all(quit=False) has run to completion with the escape key
\* never observed, stim_idx equals the number of stimuli.
C10_StimIdxIsLenAfterPlayAll ==
    (RunEnded /\ pc = "idle" /\ ~call.quit /\ ~broke) => stim_idx = Len(stimuli)

\* the 1-based list position Python's stimuli[i] names
Position(i) == IF i >= 0 THEN i + 1 ELSE Len(stimuli) + i + 1

\* a step that calls play_next
PlayNextCalled == ncalls' = ncalls + 1 /\ call'.op = "next"

\* a step in which the stim.show() of a play_next call returns
PlayNextShown == call.op = "next" /\ pc \in {"show", "waitkeys"} /\ pc' = "idle"
                 /\ raised' = "none"

C7_Step ==
    /\ (PlayNextCalled /\ (Len(stimuli) = 0 \/ stim_idx = Len(stimuli))) =>
          /\ raised' = "IndexError"
          /\ pc' = "idle"
          /\ log' = <<>>
          /\ UNCHANGED <<stim_idx, dataset, seq_next>>
    /\ (PlayNextCalled /\ raised' = "none") =>
          /\ pc' = "show"
          /\ made'.data = stimuli[Position(stim_idx)]
          /\ stim_idx' = stim_idx
    /\ PlayNextShown =>
          /\ stim_idx' = stim_idx + 1
          /\ log' = Append(log, [ev |-> "show", op |-> "next",
                                 data |-> stimuli[Position(stim_idx)],
                                 inst |-> made.inst])
    /\ (PlayNextShown /\ seq_next >= 0) =>
          /\ seq_next < Len(stimuli)
          /\ log'[Len(log')].data = stimuli[seq_next + 1]

C7_OnlyPlayNext == seq_next >= 0 => stim_idx = seq_next /\ seq_next <= Len(stimuli)

\* C7: a play_next call shows the stimulus at position stim_idx and then
\* advances stim_idx by exactly one, so that while only play_next has played,
\* its k-th show is of the k-th stimulus of the list and stim_idx is the number
\* of shows so far;
\* a call on an empty list, or when stim_idx has reached the list's length,
\* raises IndexError and changes neither what was shown, stim_idx nor the dataset.
C7_PlayNextShowsAndAdvances == []C7_OnlyPlayNext /\ [][C7_Step]_vars

\* C7 witness: play_next has shown the only stimulus, and the next call raised
C7_Witness ==
    /\ call.op = "next" /\ raised = "IndexError" /\ ncalls = 2
    /\ Len(stimuli) = 1 /\ stim_idx = 1
    /\ seq_next = 1 /\ log = <<>>

\* the step of play_all's loop that takes the next stimulus
LoopTurn == pc = "loop" /\ pc' # "loop" /\ it <= Len(stimuli)

\* the step that ends play_all
LoopEnd == pc = "save" /\ pc' # "save"

C8_Step ==
    /\ LoopTurn =>
          /\ keybuf' = {}
          /\ IF escape_key \in keybuf
             THEN broke' /\ pc' = "save" /\ log' = log /\ made' = made
             ELSE ~broke' /\ made'.data = stimuli[it]
    /\ LoopEnd =>
          LET saved == call.save_dataset /\ dataset.attached /\ Len(dataset.rows) >= 1
          IN  /\ log' = log
                        \o (IF saved THEN <<[ev |-> "write", op |-> "all",
                                             data |-> S_str, inst |-> NoInst]>>
                            ELSE <<>>)
                        \o (IF call.quit THEN <<[ev |-> "quit", op |-> "all",
                                                 data |-> S_str, inst |-> NoInst]>>
                            ELSE <<>>)
              /\ saved => file'.exists /\ file'.rows = dataset.rows
              /\ ~saved => file' = file
              /\ pc' = IF call.quit THEN "exited" ELSE "idle"

C8_AfterEscape ==
    /\ (call.op = "all" /\ broke) =>
          LET played == SelectSeq(Segment, IsPlay) IN
          /\ pc \in {"save", "idle", "exited"}
          /\ Len(played) = 2 * (it - 2)
          /\ \A i \in 1..Len(played) : played[i].data = stimuli[(i + 1) \div 2]
    /\ (call.op = "all" /\ pc = "save" /\ ~broke) => it = Len(stimuli) + 1

\* C8: each turn of play_all's loop first takes the pending keys; when they
\* include the escape key, nothing is constructed or shown in that turn or later
\* in the run, and the end of play_all still writes the dataset (when
\* save_dataset is true and the dataset has rows) and quits (when quit is true);
\* when they do not, the turn plays its stimulus, and a loop that ends without
\* the escape key has taken every stimulus.
C8_EscapeStopsTheRest == []C8_AfterEscape /\ [][C8_Step]_vars

\* C8 witness: the escape key stopped the run before the second stimulus, and
\* the run still wrote the one row and quit
C8_Witness ==
    /\ call.op = "all" /\ broke /\ pc = "exited"
    /\ Len(stimuli) = 2 /\ it = 3
    /\ Len(Shows(Segment)) = 1
    /\ file.exists /\ Len(file.rows) = 1
    /\ log[Len(log)].ev = "quit"

UpperLower == {<<"C", "c">>, <<"S", "s">>, <<"V", "v">>, <<"J", "j">>, <<"O", "o">>,
               <<"N", "n">>, <<"Y", "y">>, <<"A", "a">>, <<"M", "m">>, <<"L", "l">>,
               <<"X", "x">>, <<"T", "t">>}

\* s and t are the same word, ignoring letter case (t in lower case)
SameIgnoringCase(s, t) ==
    /\ Len(s) = Len(t)
    /\ \A i \in 1..Len(s) : s[i] = t[i] \/ <<s[i], t[i]>> \in UpperLower

\* C4: construction fails with ValueError, and yields no object, exactly when
\* the format is not, ignoring letter case, one of csv, json, yaml, xlsx;
\* otherwise the stored format is that name in lower case, and what write_data
\* writes is the serialization of that name.
C4_FormatCheckedAndLowerCased ==
    /\ pc # "new" =>
          ((pc = "noobject") <=>
              ~(\E f \in SupportedFormats : SameIgnoringCase(format_arg, f)))
    /\ pc = "noobject" => raised = "ValueError" /\ format = <<>>
    /\ pc \notin {"new", "noobject"} =>
          format \in SupportedFormats /\ SameIgnoringCase(format_arg, format)
    /\ file.exists => file.fmt = format

\* C4 witness: a paradigm made with format 'XlsX' has written its dataset
C4_Witness ==
    /\ file.exists /\ file.fmt = xlsx
    /\ format_arg # format
    /\ Len(file.rows) >= 1

\* the paradigms of every format, playing a short list
FormatNext ==
    \/ \E fmt \in FormatInputs : NewParadigm(fmt, None, TRUE)
    \/ \E s \in {S_text, S_kw} : add_stimulus(s)
    \/ play_next
    \/ \E save_dataset, quit \in BOOLEAN : play_all(save_dataset, quit)
    \/ LoopStep
    \/ Show
    \/ Save

SpecFormat == Init /\ [][FormatNext]_vars

----------------------------------------------------------------------------
(* Sequences of calls that all complete successfully *)

\* the calls of Spec, each step of which raises nothing: a call that raises
\* never returns to "idle" here, so every state with pc = "idle" follows a
\* sequence of calls that have all completed
CompletedNext ==
    \/ \E ds \in BOOLEAN : NewParadigm(CSV, "escape", ds) /\ raised' = "none"
    \/ \E s \in SpecInputs : add_stimulus(s) /\ raised' = "none"
    \/ \E a, b \in SpecInputs : add_stimuli(<<a, b>>) /\ raised' = "none"
    \/ play_next /\ raised' = "none"
    \/ \E n \in IntInputs : play_stimulus(IntArg(n)) /\ raised' = "none"
    \/ \E s \in SpecInputs : play_stimulus(SpecArg(s)) /\ raised' = "none"
    \/ \E save_dataset, quit \in BOOLEAN :
          play_all(save_dataset, quit) /\ raised' = "none"
    \/ LoopStep /\ raised' = "none"
    \/ Show /\ raised' = "none"
    \/ \E k \in Keys, rest \in SUBSET Keys : WaitKeys(k, rest) /\ raised' = "none"
    \/ Save /\ raised' = "none"
    \/ \E k \in Keys : PressKey(k) /\ raised' = "none"

SpecCompleted == Init /\ [][CompletedNext]_vars

\* between calls, stim_idx is within 0..len(stimuli)
C11_InRange == pc = "idle" => 0 <= stim_idx /\ stim_idx <= Len(stimuli)

\* a step in which the stim.show() of a play_stimulus call (made directly or by
\* play_all's loop) returns and the call goes on to its end
PlayStimulusShown ==
    /\ call.op \in {"stim", "all"}
    /\ pc \in {"show", "waitkeys"}
    /\ pc' \in {"idle", "loop"}
    /\ raised' = "none"

\* stim_idx is then one more than a (0-based) list position that holds the
\* stimulus just shown
C11_Step ==
    PlayStimulusShown =>
        /\ stim_idx' \in 1..Len(stimuli)
        /\ stimuli[stim_idx'] = made.data

\* C11: in every state reached by calls of add_stimulus, add_stimuli, play_next,
\* play_stimulus (with an index or a specification) and play_all that have all
\* completed, 0 <= stim_idx <= len(stimuli); and when a play_stimulus has shown
\* its stimulus, stim_idx is one more than the list position of that stimulus.
C11_StimIdxStaysInRange == []C11_InRange /\ [][C11_Step]_vars

----------------------------------------------------------------------------
(* wait_for_key with every shape of keys *)

\* (WaitForKey, ([],))
S_nokeys == TupleOf(<<Cls("WaitForKey"), Tup(<< <<>> >>)>>)
\* (WaitForKey, ([''], 'continue'))
S_anykey == TupleOf(<<Cls("WaitForKey"), Tup(<< <<"">>, <<"continue">> >>)>>)
\* (WaitForKey, (['', 'c'],))
S_mixed == TupleOf(<<Cls("WaitForKey"), Tup(<< <<"", "c">> >>)>>)

WaitInputs == {S_nokeys, S_anykey, S_mixed, S_wait, S_exit}

\* the participant presses a key before stim.show() is called
PressKeyEarly(k) ==
    /\ pc = "show"
    /\ k \notin keybuf
    /\ keybuf' = keybuf \cup {k}
    /\ UNCHANGED <<pc, format_arg, format, escape_key, dataset, stimuli, stim_idx,
                   file, call, it, broke, index, made, raised, log, seq_next, ncalls>>

\* a paradigm of WaitForKey stimuli, played one at a time, and a participant who
\* presses keys before and during the waits
WaitNext ==
    \/ NewParadigm(CSV, None, FALSE)
    \/ \E s \in WaitInputs : add_stimulus(s)
    \/ play_next
    \/ \E n \in IntInputs : play_stimulus(IntArg(n))
    \/ Show
    \/ \E k \in Keys, rest \in SUBSET Keys : WaitKeys(k, rest)
    \/ \E k \in Keys : PressKey(k)
    \/ \E k \in Keys : PressKeyEarly(k)

SpecWait == Init /\ [][WaitNext]_vars

\* a step in which WaitForKey.show calls wait_for_key(self.keys)
WaitCalled == pc = "show" /\ made.inst.cls = "WaitForKey" /\ pc' # "show"

\* a step in which wait_for_key returns
WaitReturned == pc = "waitkeys" /\ pc' # "waitkeys"

\* keys has at least one non-empty entry
HasNonEmptyEntry(keys) == \E i \in 1..Len(keys) : keys[i] # ""

C12_Step ==
    /\ WaitCalled =>
          /\ keybuf' = {}
          /\ raised' = "none"
          /\ pc' = "waitkeys"
    /\ WaitReturned =>
          /\ raised' = "none"
          /\ \E k \in keybuf \ keybuf' :
                HasNonEmptyEntry(made.inst.args[1]) =>
                    \E i \in 1..Len(made.inst.args[1]) : made.inst.args[1][i] = k

\* C12: for every list or tuple keys, WaitForKey.show's wait_for_key(keys) first
\* empties the key buffer and then waits without failing; the wait ends only by
\* a key pressed since, which it takes from the buffer: a key that is in keys
\* when keys has a non-empty entry, any key otherwise.
C12_WaitForKeyDiscardsThenWaits == [][C12_Step]_vars

====
